---- MODULE Spec2Model ----
(***************************************************************************)
(* A model of one match refereed by game/arbiter.py (class Arbiter): the   *)
(* grid, the players' budgets and elimination flags, and run() as a state  *)
(* machine with one step per plugin call (init_board, make_a_move,         *)
(* notify_move) and one for the checks that follow a broadcast; and of a   *)
(* tournament run by game/runner.py (run_tournament), with one step per    *)
(* match, whose result is any result a match can return.                   *)
(***************************************************************************)
EXTENDS Integers, Sequences, FiniteSets, TLC

\* ------------------------------------------------------------ bounds
\* the grids are MaxW x MaxH at most, with MaxCells cells at most; a match has
\* MaxPlayers players at most, and players times cells is MaxLoad at most; MaxObstacles
\* cells at most are obstacles; a budget is MaxTime ms and a plugin call takes up to
\* MaxSpent ms and a half
MaxW == 2
MaxH == 2
MaxCells == 4
MaxPlayers == 3
MaxLoad == 12
MaxObstacles == 1
MaxTime == 1
MaxSpent == 1
\* a tournament has MaxBots plugins and MaxBoards boards at most, a board has MaxPlayers
\* players at most, and a tournament that is not aborted runs MaxGames matches at most
MaxBots == 3
MaxBoards == 2
MaxGames == 6

\* ------------------------------------------------- program constants
\* BoardCell.BLOCKED, BoardCell.EMPTY; players are 0..N-1
BLOCKED == -2
EMPTY == -1
\* Optional[int] None: no winner / no result yet
None == -1
\* line 197: the nanoseconds of one millisecond
NsPerMs == 1000000

VARIABLES
    config,          \* BoardConfig the Arbiter was built with
    board,           \* self.board: cell -> BLOCKED | EMPTY | player index
    time_left_ms,    \* self.time_left_ms
    eliminated,      \* self.eliminated
    current_player,  \* self.current_player
    winner,          \* self.winner
    pc,              \* where run() stands: "init", "loop", "notify", "done"
    init_pid,        \* pid of the init loop (line 142)
    move,            \* the (x, y) of the accepted move, until the turn advances
    other_id,        \* other_id of the broadcast loop (line 244)
    notified,        \* recipients notify_move was called on in this broadcast, in order
    call,            \* the plugin call the last step made; for a make_a_move that returned,
                     \* whether its coordinate is inside the grid, the cell it names and
                     \* whether the call took longer than the budget the player had left
    reason,          \* the reason logged by an elimination in the last step, "" if none
    ever_eliminated, \* every pid whose flag was ever set to True
    result,          \* the GameResult run() returned
    walkers,         \* the players whose plugin is a bots/smart_walking_bot.py SmartWalkingBot
    walker_board     \* self.board of each of those plugins

\* run_tournament
VARIABLES
    bot_classes,     \* bot_classes: the plugins' names (cls.__name__), in discovery order
    boards,          \* cfg.num_players of each of board_modules, in registry order
    board_at,        \* the position in board_modules of the loop of line 64
    perm_at,         \* how many permutations of the loop of line 80 were taken on this board
    points,          \* points: name -> points, the names that got points
    bot_games,       \* bot_games: name -> games played, the names that played
    draws,           \* draws
    game_id,         \* game_id
    tpc,             \* where run_tournament stands: "run", "aborted", "returned"
    played,          \* the matches run so far: the board and list(perm) of each Arbiter
    last_result,     \* the GameResult of the last match run
    summary,         \* what the tournament summary of lines 120-138 reported
    returned         \* the value run_tournament returned

avars == <<config, board, time_left_ms, eliminated, current_player, winner, pc,
           init_pid, move, other_id, notified, call, reason, ever_eliminated, result,
           walkers, walker_board>>

tvars == <<bot_classes, boards, board_at, perm_at, points, bot_games, draws, game_id,
           tpc, played, last_result, summary, returned>>

vars == <<avars, tvars>>

\* ------------------------------------------------------------ configs
Cells(w, h) == (0 .. w - 1) \X (0 .. h - 1)

ObstacleSets(w, h) == {o \in SUBSET Cells(w, h) : Cardinality(o) <= MaxObstacles}

Sizes == {s \in (1 .. MaxW) \X (1 .. MaxH) : s[1] * s[2] <= MaxCells}

\* the win lengths a w x h grid can tell apart: up to one more than its longest line
WinLengths(w, h) == 1 .. (IF w > h THEN w ELSE h) + 1

BoardConfigs ==
    UNION { { [width |-> s[1], height |-> s[2], win_length |-> k, num_players |-> n,
               obstacles |-> o, time_ms |-> MaxTime] :
                 k \in WinLengths(s[1], s[2]),
                 n \in {m \in 1 .. MaxPlayers : m * s[1] * s[2] <= MaxLoad},
                 o \in ObstacleSets(s[1], s[2]) } :
            s \in Sizes }

W == config.width
H == config.height
Players == 0 .. config.num_players - 1

PluginCall(op, pid, ok) ==
    [op |-> op, pid |-> pid, ok |-> ok, inside |-> FALSE, cell |-> None, overran |-> FALSE]
NoCall == PluginCall("none", None, TRUE)
NoMove == <<None, None>>
NoResult == [winner_index |-> None, eliminated |-> {}, returned |-> FALSE]

\* ------------------------------------------------------------ helpers
check_inside_board(x, y) == 0 <= x /\ x < W /\ 0 <= y /\ y < H

is_cell_empty(b, x, y) == b[<<x, y>>] = EMPTY

board_full(b) == \A c \in DOMAIN b : b[c] # EMPTY

active_players(elim) == {i \in DOMAIN elim : ~elim[i]}

Min(S) == CHOOSE i \in S : \A j \in S : i <= j

RECURSIVE next_active_from(_, _, _)
next_active_from(elim, current, offset) ==
    LET n == config.num_players
        idx == (current + offset) % n
    IN  IF offset > n THEN current
        ELSE IF ~elim[idx] THEN idx
        ELSE next_active_from(elim, current, offset + 1)

\* faulty variant: the fallback of line 86 taken at once
next_active_stuck(elim, current) == current

\* faulty variant: the turn passed to the next index, eliminated or not
next_index_unfiltered(elim, current) == (current + 1) % config.num_players

next_active_player(elim, current) == next_active_from(elim, current, 1)

\* _eliminate_player, for a pid not yet eliminated: the flags, the winner, the return value
\* faulty variant: the flags rebuilt from pid alone
eliminated_only(elim, pid) == [i \in DOMAIN elim |-> i = pid]

eliminated_with(elim, pid) == [elim EXCEPT ![pid] = TRUE]

\* faulty variant: the first player of the whole list taken for the survivor
winner_first_of_all(elim, w) ==
    LET active == active_players(elim)
    IN  IF active = {} THEN None
        ELSE IF Cardinality(active) = 1 THEN Min(DOMAIN elim)
        ELSE w

winner_after_elimination(elim, w) ==
    LET active == active_players(elim)
    IN  IF active = {} THEN None
        ELSE IF Cardinality(active) = 1 THEN Min(active)
        ELSE w

\* faulty variant: the game ends only when nobody is left
ends_when_none_left(elim) == active_players(elim) = {}

elimination_ends_game(elim) == Cardinality(active_players(elim)) <= 1

RECURSIVE count_from(_, _, _, _, _, _)
count_from(b, cx, cy, dx, dy, pid) ==
    IF check_inside_board(cx, cy) /\ b[<<cx, cy>>] = pid
    THEN 1 + count_from(b, cx + dx, cy + dy, dx, dy, pid)
    ELSE 0

\* faulty variant: the backward walk left out
count_dir_forward_only(b, x, y, pid, dx, dy) ==
    1 + count_from(b, x + dx, y + dy, dx, dy, pid)

count_dir(b, x, y, pid, dx, dy) ==
    1 + count_from(b, x + dx, y + dy, dx, dy, pid)
      + count_from(b, x - dx, y - dy, -dx, -dy, pid)

\* faulty variant: the anti-diagonal left out
directions_without_antidiagonal == {<<1, 0>>, <<0, 1>>, <<1, 1>>}

Directions == {<<1, 0>>, <<0, 1>>, <<1, 1>>, <<1, -1>>}

check_winner_from_last_move(b, x, y, pid) ==
    \E d \in Directions : count_dir(b, x, y, pid, d[1], d[2]) >= config.win_length

\* faulty variant: the occupied check made before the blocked check
move_verdict_empty_first(b, x, y) ==
    IF ~check_inside_board(x, y) THEN "illegal move (outside board)"
    ELSE IF ~is_cell_empty(b, x, y) THEN "illegal move (occupied cell)"
    ELSE IF b[<<x, y>>] = BLOCKED THEN "illegal move (blocked cell)"
    ELSE "ok"

\* faulty variant: the occupied check left out
move_verdict_no_occupied_check(b, x, y) ==
    IF ~check_inside_board(x, y) THEN "illegal move (outside board)"
    ELSE IF b[<<x, y>>] = BLOCKED THEN "illegal move (blocked cell)"
    ELSE "ok"

\* the legality checks of a returned coordinate, in the order run() makes them
move_verdict(b, x, y) ==
    IF ~check_inside_board(x, y) THEN "illegal move (outside board)"
    ELSE IF b[<<x, y>>] = BLOCKED THEN "illegal move (blocked cell)"
    ELSE IF ~is_cell_empty(b, x, y) THEN "illegal move (occupied cell)"
    ELSE "ok"

\* faulty variant: the budget check off by one
timed_out_late(left_ms) == left_ms < -1

\* line 199: the budget check after the charge
timed_out(left_ms) == left_ms < 0

\* faulty variant: a failing notify_move treated like the other failing calls
after_notify_eliminating(elim, other, ok) ==
    IF ok THEN elim ELSE eliminated_with(elim, other)

\* lines 247-250: the flags after a notify_move call on `other`, whatever its outcome
after_notify(elim, other, ok) == elim

\* faulty variant: the broadcast going to every other plugin, not to the mover
skipped_in_broadcast_with_mover(elim, other, pid) == elim[other] \/ other = pid

\* lines 245-246: the plugins the broadcast of pid's move passes over
skipped_in_broadcast(elim, other, pid) == elim[other]

\* faulty variant: the board-full check made before the win check
outcome_full_first(won, full) ==
    IF full THEN "draw" ELSE IF won THEN "win" ELSE "next turn"

\* lines 252-268: what follows the broadcast of an accepted move
outcome_after_move(won, full) ==
    IF won THEN "win" ELSE IF full THEN "draw" ELSE "next turn"

\* faulty variant: the init loop going on after an elimination that decided the match
init_failure_goes_on(game_over) == FALSE

\* lines 153-154: whether the init loop returns after a failing init_board
init_failure_returns(game_over) == game_over

eliminated_indices(elim) == {i \in DOMAIN elim : elim[i]}

GameResult(w, elim) ==
    [winner_index |-> w, eliminated |-> eliminated_indices(elim), returned |-> TRUE]

\* ------------------------------------------------ SmartWalkingBot
\* SmartWalkingBot.__init__: self.board = []
walker_unbuilt == <<>>

\* faulty variant: the obstacles left out of the private grid
walker_init_board_no_obstacles(cols, rows, obstacles) ==
    [c \in Cells(cols, rows) |-> EMPTY]

\* SmartWalkingBot.init_board
walker_init_board(cols, rows, obstacles) ==
    [c \in Cells(cols, rows) |->
        IF \E o \in obstacles : o = c /\ 0 <= o[1] /\ o[1] < cols /\ 0 <= o[2] /\ o[2] < rows
        THEN BLOCKED ELSE EMPTY]

\* SmartWalkingBot.make_a_move: the first EMPTY cell, y by y and x by x within a y
walker_make_a_move(grid) ==
    LET empties == {c \in DOMAIN grid : grid[c] = EMPTY}
    IN  IF empties = {} THEN <<0, 0>>
        ELSE CHOOSE c \in empties :
               \A d \in empties : c[2] < d[2] \/ (c[2] = d[2] /\ c[1] <= d[1])

\* SmartWalkingBot.notify_move
walker_notify_move(grid, bot_uid, xy) ==
    IF xy \in DOMAIN grid THEN [grid EXCEPT ![xy] = bot_uid] ELSE grid

\* the outcomes of a call on pid's plugin: SmartWalkingBot's methods raise nothing
Outcomes(pid) == IF pid \in walkers THEN {TRUE} ELSE BOOLEAN

\* the coordinates pid's plugin returns
MovesOf(pid) ==
    IF pid \in walkers THEN {walker_make_a_move(walker_board[pid])}
    ELSE Cells(W, H) \cup {<<-1, 0>>, <<W, 0>>, <<0, -1>>, <<0, H>>}

\* ------------------------------------------------------- run_tournament
\* a name is a number: the names in ascending order are 1, 2, 3, ...
InjectiveTuples(S, k) ==
    {t \in [1 .. k -> S] : \A i, j \in 1 .. k : i # j => t[i] # t[j]}

\* the r-tuples of distinct positions out of avail whose first position is lo at least,
\* in lexicographic order
RECURSIVE position_tuples(_, _, _)
position_tuples(avail, r, lo) ==
    IF r = 0 THEN << <<>> >>
    ELSE IF {p \in avail : p >= lo} = {} THEN <<>>
    ELSE LET first == Min({p \in avail : p >= lo})
             rest == position_tuples(avail \ {first}, r - 1, 1)
         IN  [i \in 1 .. Len(rest) |-> <<first>> \o rest[i]]
               \o position_tuples(avail, r, first + 1)

\* faulty variant: itertools.combinations, the tuples of ascending positions only
combinations(pool, r) ==
    LET all == position_tuples(1 .. Len(pool), r, 1)
        ascending == SelectSeq(all, LAMBDA t : \A i, j \in 1 .. r : i < j => t[i] < t[j])
    IN  [i \in DOMAIN ascending |-> [j \in 1 .. r |-> pool[ascending[i][j]]]]

\* itertools.permutations(pool, r): the r-tuples of distinct positions of pool, in
\* lexicographic order of the positions
\* faulty variant: the last tuple left out
permutations_without_last(pool, r) ==
    LET all == position_tuples(1 .. Len(pool), r, 1)
    IN  [i \in 1 .. Len(all) - 1 |-> [j \in 1 .. r |-> pool[all[i][j]]]]

permutations(pool, r) ==
    LET ordered == position_tuples(1 .. Len(pool), r, 1)
    IN  [i \in DOMAIN ordered |-> [j \in 1 .. r |-> pool[ordered[i][j]]]]

\* line 69: the board needs more players than there are plugins
too_few_bots(n, num) == n < num

\* a defaultdict(int): d.get(key, 0), and d[key] += amount
Get(d, key) == IF key \in DOMAIN d THEN d[key] ELSE 0

Add(d, key, amount) ==
    [n \in DOMAIN d \cup {key} |-> Get(d, n) + (IF n = key THEN amount ELSE 0)]

EmptyDict == [n \in {} |-> 0]

\* lines 84-87: bot_games after the participants from position i on are counted
RECURSIVE count_games(_, _, _)
count_games(games, perm, i) ==
    IF i > Len(perm) THEN games
    ELSE count_games(Add(games, perm[i], 1), perm, i + 1)

\* lines 106-110: points after the participants from position i on got their draw point
RECURSIVE draw_points(_, _, _, _)
draw_points(pts, perm, eliminated_set, i) ==
    IF i > Len(perm) THEN pts
    ELSE draw_points(IF (i - 1) \in eliminated_set THEN pts ELSE Add(pts, perm[i], 1),
                     perm, eliminated_set, i + 1)

\* faulty variant: a draw point for every participant, eliminated or not
fold_result_all_draw(pts, perm, res) ==
    IF res.winner_index = None
    THEN draw_points(pts, perm, {}, 1)
    ELSE Add(pts, perm[res.winner_index + 1], 2)

\* lines 102-115: points after the result of a match of perm
fold_result(pts, perm, res) ==
    IF res.winner_index = None
    THEN draw_points(pts, perm, res.eliminated, 1)
    ELSE Add(pts, perm[res.winner_index + 1], 2)

\* faulty variant: the names ranked by name alone
rank_key_name_only(pts, n) == <<0, n>>

\* line 133: key=lambda n: (-points.get(n, 0), n)
rank_key(pts, n) == <<0 - Get(pts, n), n>>

KeyLess(a, b) == a[1] < b[1] \/ (a[1] = b[1] /\ a[2] < b[2])

\* lines 131-134: sorted(names, key=...)
RECURSIVE sorted_names(_, _)
sorted_names(names, pts) ==
    IF names = {} THEN <<>>
    ELSE LET first == CHOOSE n \in names :
                        \A m \in names \ {n} : KeyLess(rank_key(pts, n), rank_key(pts, m))
         IN  <<first>> \o sorted_names(names \ {first}, pts)

\* the results Arbiter.run returns for num players: a winner that is not eliminated, or
\* no winner, with at least two players not eliminated unless the match had one player
ArbiterResults(num) ==
    {r \in [winner_index : (0 .. num - 1) \cup {None}, eliminated : SUBSET (0 .. num - 1)] :
        IF r.winner_index = None
        THEN num = 1 \/ Cardinality(r.eliminated) <= num - 2
        ELSE r.winner_index \notin r.eliminated}

RECURSIVE Factorial(_)
Factorial(n) == IF n <= 1 THEN 1 ELSE n * Factorial(n - 1)

\* the matches a run of n plugins over the boards bs runs from board b on
RECURSIVE MatchCount(_, _, _)
MatchCount(n, bs, b) ==
    IF b > Len(bs) \/ too_few_bots(n, bs[b]) THEN 0
    ELSE Factorial(n) \div Factorial(n - bs[b]) + MatchCount(n, bs, b + 1)

BotLists == UNION {InjectiveTuples(1 .. n, n) : n \in 0 .. MaxBots}

BoardLists == UNION {[1 .. len -> 1 .. MaxPlayers] : len \in 0 .. MaxBoards}

NoSummary == [ordered_names |-> <<>>, total_games |-> None, draws |-> None, made |-> FALSE]
NotReturned == [table |-> EmptyDict, made |-> FALSE]
NoGameResult == [winner_index |-> None, eliminated |-> {}]

\* lines 41-62: the discovered plugins and boards, the counters
TournamentStart ==
    /\ bot_classes \in BotLists
    /\ boards \in BoardLists
    /\ MatchCount(Len(bot_classes), boards, 1) <= MaxGames
    /\ board_at = 1
    /\ perm_at = 0
    /\ points = EmptyDict
    /\ bot_games = EmptyDict
    /\ draws = 0
    /\ game_id = 0
    /\ tpc = "run"
    /\ played = <<>>
    /\ last_result = NoGameResult
    /\ summary = NoSummary
    /\ returned = NotReturned

\* no tournament: a match run on its own
NoTournament ==
    /\ bot_classes = <<>>
    /\ boards = <<>>
    /\ board_at = 1
    /\ perm_at = 0
    /\ points = EmptyDict
    /\ bot_games = EmptyDict
    /\ draws = 0
    /\ game_id = 0
    /\ tpc = "none"
    /\ played = <<>>
    /\ last_result = NoGameResult
    /\ summary = NoSummary
    /\ returned = NotReturned

\* -------------------------------------------------------------- Init
\* Arbiter.__init__
InitArbiter ==
    /\ config \in BoardConfigs
    /\ board = [c \in Cells(config.width, config.height) |->
                   IF c \in config.obstacles THEN BLOCKED ELSE EMPTY]
    /\ time_left_ms = [i \in 0 .. config.num_players - 1 |-> config.time_ms]
    /\ eliminated = [i \in 0 .. config.num_players - 1 |-> FALSE]
    /\ current_player = 0
    /\ winner = None
    /\ pc = "init"
    /\ init_pid = 0
    /\ move = NoMove
    /\ other_id = 0
    /\ notified = <<>>
    /\ call = NoCall
    /\ reason = ""
    /\ ever_eliminated = {}
    /\ result = NoResult

\* a match of plugins none of which is a SmartWalkingBot
Init ==
    /\ InitArbiter
    /\ walkers = {}
    /\ walker_board = [w \in walkers |-> walker_unbuilt]
    /\ NoTournament

\* a match some of whose plugins are SmartWalkingBots
WalkerInit ==
    /\ InitArbiter
    /\ walkers \in (SUBSET Players) \ {{}}
    /\ walker_board = [w \in walkers |-> walker_unbuilt]
    /\ NoTournament

\* ----------------------------------------------------------- actions
\* _eliminate_player(pid, why): sets eliminated', winner', reason', ever_eliminated'
eliminate_player(pid, why) ==
    IF eliminated[pid]
    THEN /\ UNCHANGED <<eliminated, winner, ever_eliminated>>
         /\ reason' = ""
    ELSE /\ eliminated' = eliminated_with(eliminated, pid)
         /\ ever_eliminated' = ever_eliminated \cup {pid}
         /\ reason' = why
         /\ winner' = winner_after_elimination(eliminated', winner)

\* faulty variant: an elimination never ends the match
game_over_ignored(pid) == FALSE

game_over_by(pid) ==
    ~eliminated[pid] /\ elimination_ends_game(eliminated_with(eliminated, pid))

Return(w, elim) ==
    /\ pc' = "done"
    /\ result' = GameResult(w, elim)

\* lines 142-163: one init_board call
InitBoard ==
    /\ pc = "init"
    /\ init_pid < config.num_players
    /\ \E ok \in Outcomes(init_pid) :
         /\ call' = PluginCall("init_board", init_pid, ok)
         /\ IF ok
            THEN /\ UNCHANGED <<eliminated, winner, ever_eliminated, result>>
                 /\ reason' = ""
                 /\ init_pid' = init_pid + 1
                 /\ pc' = IF init_pid + 1 = config.num_players THEN "loop" ELSE "init"
            ELSE /\ eliminate_player(init_pid, "init_board failure")
                 /\ IF init_failure_returns(game_over_by(init_pid))
                    THEN Return(winner', eliminated') /\ UNCHANGED init_pid
                    ELSE /\ init_pid' = init_pid + 1
                         /\ pc' = IF init_pid + 1 = config.num_players THEN "loop" ELSE "init"
                         /\ UNCHANGED result
    /\ walker_board' = IF init_pid \in walkers
                       THEN [walker_board EXCEPT ![init_pid] =
                               walker_init_board(W, H, config.obstacles)]
                       ELSE walker_board
    /\ UNCHANGED <<config, board, time_left_ms, current_player, move, other_id, notified,
                   walkers>>
    /\ UNCHANGED tvars

\* lines 166-171: the current player is eliminated
SkipEliminated ==
    /\ pc = "loop"
    /\ eliminated[current_player]
    /\ IF Cardinality(active_players(eliminated)) <= 1
       THEN Return(winner, eliminated) /\ UNCHANGED current_player
       ELSE /\ current_player' = next_active_player(eliminated, current_player)
            /\ UNCHANGED <<pc, result>>
    /\ call' = NoCall
    /\ reason' = ""
    /\ UNCHANGED <<config, board, time_left_ms, eliminated, winner, init_pid, move,
                   other_id, notified, ever_eliminated, walkers, walker_board>>
    /\ UNCHANGED tvars

\* the continuation every elimination in the move loop shares
EliminateInLoop(pid, why) ==
    /\ eliminate_player(pid, why)
    /\ IF game_over_by(pid)
       THEN Return(winner', eliminated') /\ UNCHANGED current_player
       ELSE /\ current_player' = next_active_player(eliminated', pid)
            /\ UNCHANGED <<pc, result>>
    /\ UNCHANGED <<board, other_id, notified>>

\* a make_a_move that returned (x, y) after elapsed_ns: what the coordinate names on the
\* grid as it is, and whether elapsed_ns is more than the budget as it is
Returned(pid, x, y, elapsed_ns) ==
    [op |-> "make_a_move", pid |-> pid, ok |-> TRUE,
     inside |-> (x \in 0 .. W - 1 /\ y \in 0 .. H - 1),
     cell |-> IF <<x, y>> \in DOMAIN board THEN board[<<x, y>>] ELSE None,
     overran |-> elapsed_ns > time_left_ms[pid] * NsPerMs]

\* end_ns - start_ns of a call: no time, MaxSpent ms, MaxSpent ms and a half
ElapsedNs == {0, MaxSpent * NsPerMs, MaxSpent * NsPerMs + (NsPerMs \div 2)}

\* line 197: the whole milliseconds of the elapsed nanoseconds
spent_ms_of(elapsed_ns) == elapsed_ns \div NsPerMs

\* lines 173-242: one make_a_move call, the time charge, the legality checks, the placement
MakeAMove ==
    /\ pc = "loop"
    /\ ~eliminated[current_player]
    /\ LET pid == current_player IN
       \/ /\ FALSE \in Outcomes(pid)
          /\ call' = PluginCall("make_a_move", pid, FALSE)
          /\ EliminateInLoop(pid, "crash")
          /\ UNCHANGED <<time_left_ms, move>>
       \/ \E xy \in MovesOf(pid), elapsed_ns \in ElapsedNs :
          LET x == xy[1]
              y == xy[2]
          IN
          /\ call' = Returned(pid, x, y, elapsed_ns)
          /\ time_left_ms' = [time_left_ms EXCEPT ![pid] = @ - spent_ms_of(elapsed_ns)]
          /\ IF timed_out(time_left_ms'[pid])
             THEN EliminateInLoop(pid, "timeout") /\ UNCHANGED move
             ELSE IF move_verdict(board, x, y) # "ok"
             THEN EliminateInLoop(pid, move_verdict(board, x, y)) /\ UNCHANGED move
             ELSE /\ board' = [board EXCEPT ![<<x, y>>] = pid]
                  /\ move' = <<x, y>>
                  /\ pc' = "notify"
                  /\ other_id' = 0
                  /\ notified' = <<>>
                  /\ reason' = ""
                  /\ UNCHANGED <<eliminated, winner, ever_eliminated, current_player, result>>
    /\ UNCHANGED <<config, init_pid, walkers, walker_board>>
    /\ UNCHANGED tvars

\* lines 244-250: one iteration of the broadcast loop
NotifyMove ==
    /\ pc = "notify"
    /\ other_id < config.num_players
    /\ IF skipped_in_broadcast(eliminated, other_id, current_player)
       THEN /\ call' = NoCall
            /\ UNCHANGED <<notified, eliminated, walker_board>>
       ELSE \E ok \in Outcomes(other_id) :
            /\ call' = PluginCall("notify_move", other_id, ok)
            /\ notified' = Append(notified, other_id)
            /\ eliminated' = after_notify(eliminated, other_id, ok)
            /\ walker_board' = IF other_id \in walkers
                               THEN [walker_board EXCEPT ![other_id] =
                                       walker_notify_move(@, current_player, move)]
                               ELSE walker_board
    /\ other_id' = other_id + 1
    /\ reason' = ""
    /\ UNCHANGED <<config, board, time_left_ms, current_player, winner, pc,
                   init_pid, move, ever_eliminated, result, walkers>>
    /\ UNCHANGED tvars

\* lines 252-268: the win check, the draw check, the turn advance
CheckAfterMove ==
    /\ pc = "notify"
    /\ other_id = config.num_players
    /\ LET pid == current_player
           x == move[1]
           y == move[2]
           outcome == outcome_after_move(check_winner_from_last_move(board, x, y, pid),
                                         board_full(board))
       IN  IF outcome = "win"
           THEN /\ winner' = pid
                /\ Return(pid, eliminated)
                /\ UNCHANGED <<current_player, move>>
           ELSE IF outcome = "draw"
           THEN /\ winner' = None
                /\ Return(None, eliminated)
                /\ UNCHANGED <<current_player, move>>
           ELSE /\ current_player' = next_active_player(eliminated, pid)
                /\ pc' = "loop"
                /\ move' = NoMove
                /\ UNCHANGED <<winner, result>>
    /\ call' = NoCall
    /\ reason' = ""
    /\ UNCHANGED <<config, board, time_left_ms, eliminated, init_pid, other_id,
                   notified, ever_eliminated, walkers, walker_board>>
    /\ UNCHANGED tvars

Next == InitBoard \/ SkipEliminated \/ MakeAMove \/ NotifyMove \/ CheckAfterMove

Spec == Init /\ [][Next]_vars

\* the liveness specification: run() is sequential and, every plugin call returning
\* or failing in finite time, always takes its next step
FairSpec == Spec /\ WF_vars(Next)

\* the matches SmartWalkingBots take part in
WalkerSpec == WalkerInit /\ [][Next]_vars

\* ---------------------------------------------------- run_tournament
\* the matches of a tournament are not run step by step: each is one step of RunMatch
NoMatch ==
    /\ config = [width |-> 1, height |-> 1, win_length |-> 1, num_players |-> 1,
                 obstacles |-> {}, time_ms |-> MaxTime]
    /\ board = [c \in Cells(1, 1) |-> EMPTY]
    /\ time_left_ms = [i \in {0} |-> MaxTime]
    /\ eliminated = [i \in {0} |-> FALSE]
    /\ current_player = 0
    /\ winner = None
    /\ pc = "none"
    /\ init_pid = 0
    /\ move = NoMove
    /\ other_id = 0
    /\ notified = <<>>
    /\ call = NoCall
    /\ reason = ""
    /\ ever_eliminated = {}
    /\ result = NoResult
    /\ walkers = {}
    /\ walker_board = [w \in walkers |-> walker_unbuilt]

TournamentInit == TournamentStart /\ NoMatch

\* lines 44-49: nothing discovered
EarlyReturn ==
    /\ tpc = "run"
    /\ boards = <<>> \/ bot_classes = <<>>
    /\ tpc' = "returned"
    /\ returned' = [table |-> EmptyDict, made |-> TRUE]
    /\ UNCHANGED <<bot_classes, boards, board_at, perm_at, points, bot_games, draws,
                   game_id, played, last_result, summary>>
    /\ UNCHANGED avars

\* lines 69-78: the board needs more players than there are plugins
Abort ==
    /\ tpc = "run"
    /\ boards # <<>> /\ bot_classes # <<>>
    /\ board_at <= Len(boards)
    /\ perm_at = 0
    /\ too_few_bots(Len(bot_classes), boards[board_at])
    /\ tpc' = "aborted"
    /\ UNCHANGED <<bot_classes, boards, board_at, perm_at, points, bot_games, draws,
                   game_id, played, last_result, summary, returned>>
    /\ UNCHANGED avars

\* lines 80-118: one match, and the step of the two loops to the next one
RunMatch ==
    /\ tpc = "run"
    /\ boards # <<>> /\ bot_classes # <<>>
    /\ board_at <= Len(boards)
    /\ ~too_few_bots(Len(bot_classes), boards[board_at])
    /\ \E num \in {boards[board_at]} :
       \E perms \in {permutations(bot_classes, num)} :
           /\ perm_at < Len(perms)
           /\ \E perm \in {perms[perm_at + 1]} :
                  /\ game_id' = game_id + 1
                  /\ bot_games' = count_games(bot_games, perm, 1)
                  /\ played' = Append(played, [board |-> board_at, bots |-> perm,
                                               number |-> game_id + 1])
                  /\ \E res \in ArbiterResults(num) :
                       /\ last_result' = res
                       /\ draws' = IF res.winner_index = None THEN draws + 1 ELSE draws
                       /\ points' = fold_result(points, perm, res)
           /\ IF perm_at + 1 = Len(perms)
              THEN board_at' = board_at + 1 /\ perm_at' = 0
              ELSE perm_at' = perm_at + 1 /\ UNCHANGED board_at
    /\ UNCHANGED <<bot_classes, boards, tpc, summary, returned>>
    /\ UNCHANGED avars

\* lines 120-140: the summary, the ranking, the returned score table
Summary ==
    /\ tpc = "run"
    /\ boards # <<>> /\ bot_classes # <<>>
    /\ board_at > Len(boards)
    /\ summary' = [ordered_names |-> sorted_names(DOMAIN bot_games, points),
                   total_games |-> game_id, draws |-> draws, made |-> TRUE]
    /\ returned' = [table |-> points, made |-> TRUE]
    /\ tpc' = "returned"
    /\ UNCHANGED <<bot_classes, boards, board_at, perm_at, points, bot_games, draws,
                   game_id, played, last_result>>
    /\ UNCHANGED avars

TournamentNext == EarlyReturn \/ Abort \/ RunMatch \/ Summary

TournamentSpec == TournamentInit /\ [][TournamentNext]_vars

\* ------------------------------------------------------------ claims
Active == active_players(eliminated)
GameOver == pc = "done"
Stones == {c \in DOMAIN board : board[c] \in Players}

\* C1: a returned result that has a winner never lists that winner as eliminated
WinnerNotEliminated ==
    (result.returned /\ result.winner_index # None)
        => result.winner_index \notin result.eliminated

WinnerNotEliminatedWitness ==
    /\ result.returned
    /\ result.winner_index # None
    /\ result.eliminated # {}
    /\ config.num_players = 3

EmptyCells == {c \in DOMAIN board : board[c] = EMPTY}

\* C2: under fairness every match reaches GameOver: from any reachable state run()
\* eventually returns a result, each step of the move loop placing a stone on an Empty
\* cell, eliminating a player or moving on from an eliminated player
MatchTerminates ==
    /\ [][ pc = "loop" =>
             \/ (Cardinality(EmptyCells') < Cardinality(EmptyCells) /\ pc' = "notify")
             \/ Cardinality(active_players(eliminated')) < Cardinality(Active)
             \/ (eliminated[current_player] /\ ~eliminated'[current_player'])
       ]_vars
    /\ (~GameOver ~> (GameOver /\ result.returned))

MatchTerminatesWitness ==
    /\ GameOver
    /\ result.returned
    /\ Stones # {}
    /\ ever_eliminated # {}

\* C3: an elimination that leaves exactly one player ends the match at once with that
\* player as winner, and from then on no make_a_move or notify_move call is made and
\* no cell changes
LastStandingWins ==
    [][ /\ (eliminated' # eliminated /\ Cardinality(active_players(eliminated')) = 1)
            => /\ pc' = "done"
               /\ winner' = Min(active_players(eliminated'))
               /\ result'.returned
               /\ result'.winner_index = winner'
        /\ (ever_eliminated # {} /\ Cardinality(Active) = 1)
            => /\ call'.op \notin {"make_a_move", "notify_move"}
               /\ board' = board
      ]_vars

LastStandingWinsWitness ==
    /\ GameOver
    /\ config.num_players = 3
    /\ Cardinality(Active) = 1
    /\ winner = Min(Active)
    /\ reason = "illegal move (outside board)"
    /\ Stones # {}

\* C4: a returned coordinate is checked inside-the-grid first, then not-Blocked, then
\* Empty; the first failing check eliminates the mover with its own reason, leaves the
\* grid as it is and starts no broadcast and no win or draw check
ValidationOrder ==
    [][ (call'.op = "make_a_move" /\ call'.ok /\ ~timed_out(time_left_ms'[call'.pid]))
          => LET pid == call'.pid
                 rejected(why) == /\ reason' = why
                                  /\ eliminated'[pid]
                                  /\ ~eliminated[pid]
                                  /\ board' = board
                                  /\ pc' \in {"loop", "done"}
                                  /\ notified' = notified
                                  /\ (pc' = "done" =>
                                        Cardinality(active_players(eliminated')) <= 1)
             IN  /\ ~call'.inside => rejected("illegal move (outside board)")
                 /\ (call'.inside /\ call'.cell = BLOCKED)
                        => rejected("illegal move (blocked cell)")
                 /\ (call'.inside /\ call'.cell \notin {BLOCKED, EMPTY})
                        => rejected("illegal move (occupied cell)")
                 /\ (call'.inside /\ call'.cell = EMPTY)
                        => (reason' = "" /\ ~eliminated'[pid] /\ pc' = "notify")
      ]_vars

ValidationOrderWitness ==
    /\ call.op = "make_a_move"
    /\ call.ok
    /\ call.inside
    /\ call.cell = BLOCKED
    /\ reason = "illegal move (blocked cell)"
    /\ ~GameOver

\* C5: the only cell change is one Empty cell becoming the current player's, one cell
\* per step, in the step whose make_a_move returned in time a coordinate that names an
\* Empty cell inside the grid; Blocked and Occupied cells never change
OnlyEmptyBecomesOccupied ==
    [][ /\ DOMAIN board' = DOMAIN board
        /\ \A c \in DOMAIN board :
             board'[c] # board[c]
               => /\ board[c] = EMPTY
                  /\ board'[c] = current_player
                  /\ ~eliminated[current_player]
                  /\ ~eliminated'[current_player]
                  /\ call'.op = "make_a_move" /\ call'.pid = current_player
                  /\ call'.ok /\ call'.inside /\ call'.cell = EMPTY
                  /\ time_left_ms'[current_player] >= 0
                  /\ reason' = ""
                  /\ \A d \in DOMAIN board \ {c} : board'[d] = board[d]
      ]_vars

OnlyEmptyBecomesOccupiedWitness ==
    /\ \E c \in DOMAIN board : board[c] = BLOCKED
    /\ Cardinality({board[c] : c \in Stones}) = 3
    /\ pc = "notify"
    /\ other_id = 0

\* player pid owns k cells in a row, in one of the four line directions, that
\* include (x, y)
Owns(b, c, pid) == c \in DOMAIN b /\ b[c] = pid

LineThrough(b, x, y, pid, k) ==
    \E d \in {<<1, 0>>, <<0, 1>>, <<1, 1>>, <<1, -1>>} :
      \E a \in 0 .. k - 1 :
        \A i \in 0 .. k - 1 :
          Owns(b, <<x + (i - a) * d[1], y + (i - a) * d[2]>>, pid)

NoLineAnywhere ==
    \A p \in Players, c \in DOMAIN board :
        ~LineThrough(board, c[1], c[2], p, config.win_length)

\* C7: a returned result on a grid with no Empty cell and no win_length cells in a row
\* of any player has no winner
FullBoardNoLineIsDraw ==
    (result.returned /\ board_full(board) /\ NoLineAnywhere)
        => result.winner_index = None

\* C8 as stated: whenever make_a_move is about to be called or a turn has been fully
\* processed, every player's remaining budget is at least 0
BudgetNeverNegative ==
    pc \in {"loop", "done"} => \A i \in Players : time_left_ms[i] >= 0

\* C8, amended: every player that is not eliminated has a remaining budget of at least
\* 0 in every state; only a player that has been eliminated has a negative one
BudgetNegativeOnlyEliminated ==
    \A i \in Players : time_left_ms[i] < 0 => eliminated[i]

BudgetNegativeOnlyEliminatedWitness ==
    /\ pc = "loop"
    /\ ~eliminated[current_player]
    /\ time_left_ms[current_player] = 0
    /\ \E i \in Players : time_left_ms[i] < 0 /\ eliminated[i]

\* C9: an eliminated flag that is true stays true, and the eliminated set of the
\* returned result is the set of players whose flag was ever set
EliminationMonotonic ==
    [][ /\ \A i \in Players : eliminated[i] => eliminated'[i]
        /\ result'.returned => result'.eliminated = ever_eliminated'
      ]_vars

EliminationMonotonicWitness ==
    /\ GameOver
    /\ result.returned
    /\ Cardinality(result.eliminated) = 2
    /\ result.eliminated = ever_eliminated
    /\ Stones # {}

Range(seq) == {seq[i] : i \in 1 .. Len(seq)}

\* C10: a failing notify_move eliminates nobody, changes no cell, no budget and not the
\* winner, and the broadcast goes on to the next recipient: when the win check is
\* reached every player that is not eliminated has been notified
NotifyFailureIgnored ==
    [][ /\ (call'.op = "notify_move" /\ ~call'.ok)
            => /\ eliminated' = eliminated
               /\ ever_eliminated' = ever_eliminated
               /\ board' = board
               /\ winner' = winner
               /\ time_left_ms' = time_left_ms
               /\ reason' = ""
               /\ result' = result
               /\ current_player' = current_player
               /\ move' = move
               /\ pc' = "notify"
               /\ other_id' = other_id + 1
               /\ notified' = Append(notified, call'.pid)
        /\ (pc' = "notify" /\ other_id' = config.num_players)
            => /\ Range(notified') = active_players(eliminated')
               /\ Len(notified') = Cardinality(active_players(eliminated'))
      ]_vars

NotifyFailureIgnoredWitness ==
    /\ pc = "notify"
    /\ other_id = config.num_players
    /\ call.op = "notify_move"
    /\ ~call.ok
    /\ config.num_players = 3
    /\ Len(notified) = 2

Ascending(seq) == \A i, j \in 1 .. Len(seq) : i < j => seq[i] < seq[j]

\* C11: notify_move is called only in the broadcast that follows an accepted move, on a
\* plugin that is not eliminated and was not yet notified of this move; when the
\* broadcast is over the recipients are, in ascending index order, exactly the players
\* not eliminated, the mover among them; a move that was not accepted starts no broadcast
BroadcastToAllActive ==
    [][ /\ call'.op = "notify_move"
            => /\ pc = "notify"
               /\ board[move] = current_player
               /\ call'.pid = other_id
               /\ ~eliminated[call'.pid]
               /\ call'.pid \notin Range(notified)
               /\ notified' = Append(notified, call'.pid)
        /\ (pc' = "notify" /\ other_id' = config.num_players)
            => /\ Ascending(notified')
               /\ Range(notified') = active_players(eliminated')
               /\ current_player' \in Range(notified')
        /\ (pc # "notify" /\ pc' = "notify")
            => /\ call'.op = "make_a_move" /\ call'.pid = current_player
               /\ call'.ok /\ call'.inside /\ call'.cell = EMPTY
               /\ reason' = ""
               /\ notified' = <<>>
        /\ (pc = "notify" /\ pc' # "notify") => other_id = config.num_players
        /\ pc # "notify" => call'.op # "notify_move"
      ]_vars

BroadcastToAllActiveWitness ==
    /\ pc = "notify"
    /\ other_id = config.num_players
    /\ config.num_players = 3
    /\ eliminated[1]
    /\ current_player = 2
    /\ notified = <<0, 2>>

\* how many steps after p, going round the player indices, q comes: 1 .. num_players
CyclicDistance(p, q) == ((q - p - 1) % config.num_players) + 1

FirstActiveAfter(elim, pid) ==
    CHOOSE j \in active_players(elim) :
        \A i \in active_players(elim) : CyclicDistance(pid, j) <= CyclicDistance(pid, i)

\* C16: make_a_move is called only on the current player and only when it is not
\* eliminated; a turn of pid that does not end the match (an accepted move whose checks
\* are done, or an elimination of pid) hands the turn to the first player after pid, in
\* cyclic index order, that is not eliminated, and that player is the next one asked
TurnOrder ==
    [][ /\ call'.op = "make_a_move"
            => /\ pc = "loop"
               /\ call'.pid = current_player
               /\ ~eliminated[call'.pid]
        /\ ((call'.op = "make_a_move" /\ pc' = "loop") \/ (pc = "notify" /\ pc' = "loop"))
            => /\ active_players(eliminated') # {}
               /\ current_player' = FirstActiveAfter(eliminated', current_player)
               /\ ~eliminated'[current_player']
        /\ (pc = "loop" /\ ~eliminated[current_player])
            => (call'.op = "make_a_move" /\ call'.pid = current_player)
        /\ (pc = "loop" /\ eliminated[current_player])
            => (call'.op = "none" /\ Stones = {} /\ board' = board)
      ]_vars

TurnOrderWitness ==
    /\ pc = "loop"
    /\ config.num_players = 3
    /\ eliminated[1]
    /\ current_player = 2
    /\ call = NoCall
    /\ {board[c] : c \in Stones} = {0}

\* C17 as stated: a make_a_move call that returns after more time than the budget the
\* player had left eliminates the player for "timeout" and leaves the grid as it is
OverrunIsTimeout ==
    [][ (call'.op = "make_a_move" /\ call'.ok /\ call'.overran)
          => /\ reason' = "timeout"
             /\ eliminated'[call'.pid]
             /\ board' = board
      ]_vars

\* C18: when the checks that follow an accepted move find the grid without an Empty cell
\* and the mover owning win_length cells in a row through the cell just taken, the match
\* ends with the mover as winner, not as a draw
WinBeforeDraw ==
    [][ ( /\ pc = "notify"
          /\ other_id = config.num_players
          /\ board_full(board)
          /\ LineThrough(board, move[1], move[2], current_player, config.win_length) )
          => /\ pc' = "done"
             /\ winner' = current_player
             /\ result'.returned
             /\ result'.winner_index = current_player
      ]_vars

WinBeforeDrawWitness ==
    /\ GameOver
    /\ EmptyCells = {}
    /\ Cardinality(Stones) = 4
    /\ config.num_players = 3
    /\ config.win_length = 2
    /\ move # NoMove
    /\ board[move] = current_player
    /\ result.winner_index = current_player
    /\ LineThrough(board, move[1], move[2], current_player, config.win_length)

\* C19: init_board is called in the init phase only, on player 0 first and then on each
\* next index; a failing call eliminates its player; when that leaves at most one player
\* the result is returned in the same step and no step follows a returned result, so no
\* later init_board, no make_a_move and no notify_move is made; otherwise the init phase
\* goes on, and make_a_move and notify_move are called only when init_board has been
\* called on every plugin, and never on a player that was eliminated
InitPhase ==
    [][ /\ call'.op = "init_board"
            => /\ pc = "init"
               /\ call'.pid = init_pid
               /\ call'.pid = IF call.op = "init_board" THEN call.pid + 1 ELSE 0
               /\ board' = board
        /\ (call'.op = "init_board" /\ ~call'.ok)
            => /\ eliminated'[call'.pid]
               /\ reason' = "init_board failure"
               /\ IF Cardinality(active_players(eliminated')) <= 1
                  THEN /\ pc' = "done"
                       /\ result'.returned
                       /\ result'.winner_index = winner'
                       /\ result'.eliminated = eliminated_indices(eliminated')
                  ELSE pc' \in {"init", "loop"}
        /\ (call'.op = "init_board" /\ call'.ok)
            => (eliminated' = eliminated /\ pc' \in {"init", "loop"})
        /\ pc # "done"
        /\ call'.op \in {"make_a_move", "notify_move"}
            => /\ pc # "init"
               /\ init_pid = config.num_players
               /\ call'.pid \notin ever_eliminated
      ]_vars

InitPhaseWitness ==
    /\ GameOver
    /\ config.num_players = 3
    /\ call = PluginCall("init_board", 1, FALSE)
    /\ reason = "init_board failure"
    /\ init_pid = 1
    /\ result.returned
    /\ result.winner_index = 2
    /\ result.eliminated = {0, 1}

\* C20: whenever make_a_move is called on a SmartWalkingBot, the plugin's private grid
\* is the arbiter's grid, cell for cell, and the coordinate it returns names an Empty
\* cell inside the grid if the grid has one; the same equality holds whenever a
\* SmartWalkingBot that is not eliminated waits in the move loop
PrivateGridIsGrid ==
    [][ /\ (call'.op = "make_a_move" /\ call'.pid \in walkers)
            => /\ walker_board[call'.pid] = board
               /\ call'.ok
               /\ EmptyCells # {} => (call'.inside /\ call'.cell = EMPTY)
        /\ pc' = "loop"
            => \A w \in walkers : ~eliminated'[w] => walker_board'[w] = board'
      ]_vars

PrivateGridIsGridWitness ==
    /\ call.op = "make_a_move"
    /\ call.pid \in walkers
    /\ pc = "notify"
    /\ walkers # Players
    /\ \E c \in DOMAIN board : board[c] = BLOCKED
    /\ \E c \in Stones : board[c] \notin walkers
    /\ Cardinality(Stones) >= 3

\* C21 as stated: in every state in which the match is not over no player owns
\* win_length cells in a row anywhere on the grid
NoLineWhileNotOver ==
    ~GameOver => NoLineAnywhere

\* C21, amended: in every state in which init_board or make_a_move is about to be
\* called no player, eliminated or not, owns win_length cells in a row anywhere on the
\* grid; during the broadcast of an accepted move only the mover can own such a row,
\* and only through the cell just taken
NoLineBeforeMove ==
    /\ pc \in {"init", "loop"} => NoLineAnywhere
    /\ pc = "notify"
         => \A p \in Players, c \in DOMAIN board :
              LineThrough(board, c[1], c[2], p, config.win_length)
                => /\ p = current_player
                   /\ LineThrough(board, move[1], move[2], p, config.win_length)

NoLineBeforeMoveWitness ==
    /\ pc = "loop"
    /\ config.win_length = 2
    /\ Cardinality(Stones) = 3
    /\ \E c \in Stones : eliminated[board[c]]
    /\ NoLineAnywhere

\* the points lines 102-115 of run_tournament award for the result res of a match of
\* num plugins of pairwise distinct names
RECURSIVE total_of(_, _)
total_of(pts, names) ==
    IF names = {} THEN 0
    ELSE LET n == CHOOSE m \in names : TRUE
         IN  Get(pts, n) + total_of(pts, names \ {n})

points_awarded(res, num) ==
    total_of(fold_result(EmptyDict, [i \in 1 .. num |-> i], res), 1 .. num)

\* C22: in a match of at least 2 players some player is never eliminated; a match that
\* ends with an elimination has exactly one player left, who is the winner; a match that
\* ends without a winner has a full grid and at least 2 players left, and the
\* tournament awards at least 2 points for it
SomebodyIsLeft ==
    config.num_players >= 2
      => /\ Active # {}
         /\ (GameOver /\ reason # "")
              => /\ Cardinality(Active) = 1
                 /\ winner \in Active
                 /\ result.winner_index = winner
                 /\ result.eliminated = Players \ {winner}
         /\ (GameOver /\ result.winner_index = None)
              => /\ board_full(board)
                 /\ Cardinality(Active) >= 2
                 /\ result.eliminated = Players \ Active
                 /\ points_awarded(result, config.num_players) = Cardinality(Active)
                 /\ points_awarded(result, config.num_players) >= 2

SomebodyIsLeftWitness ==
    /\ GameOver
    /\ config.num_players = 3
    /\ result.winner_index = None
    /\ Cardinality(result.eliminated) = 1
    /\ board_full(board)
    /\ points_awarded(result, config.num_players) = 2

\* a match of 3 players that two eliminations ended
EndedByEliminationWitness ==
    /\ GameOver
    /\ config.num_players = 3
    /\ reason # ""
    /\ Cardinality(Active) = 1
    /\ result.winner_index \in Active

\* ------------------------------------------------- claims, run_tournament
Names == Range(bot_classes)

MatchesOn(b) == SelectSeq(played, LAMBDA m : m.board = b)

\* C12: on every board the matches run so far are matches of num_players pairwise
\* distinct plugins, the plugin at position i of the tuple being player i of the Arbiter,
\* no tuple run twice; when the board is done they are all the ordered tuples of
\* num_players pairwise distinct plugins, n!/(n-k)! matches; a board not yet reached
\* has none
EveryOrderedTupleOnce ==
    \A b \in 1 .. Len(boards) :
        LET ms == MatchesOn(b)
            n == Len(bot_classes)
            k == boards[b]
        IN  /\ \A i, j \in 1 .. Len(ms) : i # j => ms[i].bots # ms[j].bots
            /\ \A i \in 1 .. Len(ms) : ms[i].bots \in InjectiveTuples(Names, k)
            /\ b < board_at
                 => /\ {ms[i].bots : i \in 1 .. Len(ms)} = InjectiveTuples(Names, k)
                    /\ Len(ms) = Factorial(n) \div Factorial(n - k)
            /\ b > board_at => ms = <<>>

EveryOrderedTupleOnceWitness ==
    /\ tpc = "returned"
    /\ bot_classes = <<2, 3, 1>>
    /\ boards = <<2>>
    /\ game_id = 6
    /\ played[2].bots = <<2, 1>>

\* C13: a match changes the score table by exactly this: with a winner, 2 points for
\* the winner's name and none for any other name; without a winner, 1 point for the
\* name of each participant that is not in the result's eliminated set and none for any
\* other name; one more game for each participant's name and for no other; one more
\* draw exactly when the result has no winner
ScoreFolding ==
    [][ game_id' # game_id
          => LET perm == played'[Len(played')].bots
                 res == last_result'
                 gain(name) ==
                     IF res.winner_index # None
                     THEN IF name = perm[res.winner_index + 1] THEN 2 ELSE 0
                     ELSE IF \E i \in 1 .. Len(perm) :
                                perm[i] = name /\ (i - 1) \notin res.eliminated
                          THEN 1 ELSE 0
             IN  /\ game_id' = game_id + 1
                 /\ Len(played') = Len(played) + 1
                 /\ \A name \in Names :
                      /\ Get(points', name) = Get(points, name) + gain(name)
                      /\ Get(bot_games', name) =
                           Get(bot_games, name) + (IF name \in Range(perm) THEN 1 ELSE 0)
                 /\ DOMAIN points' \subseteq Names
                 /\ DOMAIN bot_games' \subseteq Names
                 /\ draws' = draws + (IF res.winner_index = None THEN 1 ELSE 0)
      ]_vars

ScoreFoldingWitness ==
    /\ game_id = 2
    /\ Len(played[2].bots) = 3
    /\ last_result = [winner_index |-> None, eliminated |-> {1}]
    /\ Get(bot_games, played[2].bots[2]) = 2
    /\ Get(points, played[2].bots[2]) = 0
    /\ Get(points, played[2].bots[1]) = 3
    /\ draws = 1

\* C14 as stated: a run in which some board needs more players than there are plugins
\* never returns a score table and never reports a ranking; when it is over it has
\* aborted, with no match run on that board or a later one
ShortBoardAborts ==
    LET short == {b \in 1 .. Len(boards) : Len(bot_classes) < boards[b]}
    IN  short # {}
          => /\ ~returned.made
             /\ ~summary.made
             /\ tpc \in {"run", "aborted"}
             /\ \A i \in 1 .. Len(played) : \A b \in short : played[i].board < b

PlayedNames == UNION {Range(played[i].bots) : i \in 1 .. Len(played)}

\* C15: the ranking reported lists each name that played in a match once and no other
\* name, names with 0 points too, by points descending and by name ascending among equal
\* points; the total of games reported is the number of matches run and the total of
\* draws reported is the draw counter, which each match without a winner raised by one
\* and no other match raised
RankingComplete ==
    [][ /\ summary'.made
            => LET r == summary'.ordered_names
               IN  /\ Range(r) = PlayedNames'
                   /\ Len(r) = Cardinality(PlayedNames')
                   /\ \A i, j \in 1 .. Len(r) :
                        i < j => \/ Get(points', r[i]) > Get(points', r[j])
                                 \/ /\ Get(points', r[i]) = Get(points', r[j])
                                    /\ r[i] < r[j]
                   /\ summary'.total_games = Len(played')
                   /\ summary'.draws = draws'
                   /\ returned'.made
                   /\ \A name \in Names : Get(returned'.table, name) = Get(points', name)
        /\ draws' # draws
            => /\ draws' = draws + 1
               /\ Len(played') = Len(played) + 1
               /\ last_result'.winner_index = None
        /\ (Len(played') # Len(played) /\ last_result'.winner_index = None)
            => draws' = draws + 1
      ]_vars

RankingCompleteWitness ==
    /\ summary.made
    /\ Len(summary.ordered_names) = 3
    /\ bot_classes = <<3, 1, 2>>
    /\ summary.ordered_names = <<2, 3, 1>>
    /\ Get(points, 2) = Get(points, 3)
    /\ 1 \notin DOMAIN points
    /\ summary.draws > 0

\* the matches on board b in which name sat at position i
position_count(b, name, i) ==
    Cardinality({j \in 1 .. Len(played) : played[j].board = b /\ played[j].bots[i] = name})

\* the matches in which name took part
appearances(name) ==
    Cardinality({j \in 1 .. Len(played) : name \in Range(played[j].bots)})

\* the positions in bot_classes of the plugins of a match
positions_of(bots) ==
    [i \in 1 .. Len(bots) |-> CHOOSE p \in 1 .. Len(bot_classes) : bot_classes[p] = bots[i]]

\* lexicographic order of two tuples of the same length
LexLess(a, b) ==
    \E i \in 1 .. Len(a) :
        /\ a[i] < b[i]
        /\ \A j \in 1 .. i - 1 : a[j] = b[j]

\* C23: the matches are numbered 1, 2, 3, ... without gaps, board after board and on a
\* board in the order of the ordered tuples of positions in the plugin list; when the
\* run has returned, every name has the same games-played count, the number of matches
\* it took part in, and on each board every name sat at every player index in the same
\* number of matches, (n-1)!/(n-k)!, whatever the results were
EvenSchedule ==
    /\ game_id = Len(played)
    /\ \A i \in 1 .. Len(played) : played[i].number = i
    /\ \A i \in 1 .. Len(played) - 1 :
         \/ played[i].board < played[i + 1].board
         \/ /\ played[i].board = played[i + 1].board
            /\ LexLess(positions_of(played[i].bots), positions_of(played[i + 1].bots))
    /\ tpc = "returned"
         => /\ \A n, m \in Names : Get(bot_games, n) = Get(bot_games, m)
            /\ \A n \in Names : Get(bot_games, n) = appearances(n)
            /\ \A b \in 1 .. Len(boards) :
                 \A n \in Names, i \in 1 .. boards[b] :
                    position_count(b, n, i) =
                      Factorial(Len(bot_classes) - 1)
                        \div Factorial(Len(bot_classes) - boards[b])

EvenScheduleWitness ==
    /\ tpc = "returned"
    /\ Len(bot_classes) = 3
    /\ boards = <<2>>
    /\ played[6].number = 6
    /\ \A n \in Names : Get(bot_games, n) = 4
    /\ \A n \in Names, i \in 1 .. 2 : position_count(1, n, i) = 2
    /\ \E n, m \in Names : Get(points, n) = 0 /\ Get(points, m) = 8

====
